---- MODULE Spec2Model ----
(***************************************************************************)
(* Model of src/app.py: the WhatsApp booking webhook, the calendar tool    *)
(* (GoogleCalendarTool) and the sender normalisation.                      *)
(*                                                                         *)
(* Texts are sequences of one-character strings.  Characters outside       *)
(* ASCII are written with ASCII stand-ins that are single elements of a    *)
(* text: "a~" is a-tilde, "a^" is a-grave.  The markers that open a reply  *)
(* (cross mark, check mark, warning sign, waste basket, calendar) are      *)
(* single elements too.                                                    *)
(***************************************************************************)
EXTENDS Integers, Sequences, FiniteSets, TLC

VARIABLES pc, entry, text, now, req, ret, calls

vars == <<pc, entry, text, now, req, ret, calls>>

(***************************************************************************)
(* Bounds of the model.                                                    *)
(***************************************************************************)
\* fragments in a text handed to _parse_time
MaxFrags == 3
\* fragments in a message handed to _run, _agendar_evento, _cancelar_evento
MaxMsgFrags == 2
\* fragments in the Body of a webhook request
MaxBodyFrags == 1
\* events the calendar listing returns
MaxItems == 2
\* fragments in a sender identifier
MaxNumFrags == 3

(***************************************************************************)
(* Characters and strings (str methods and the re patterns of the source). *)
(***************************************************************************)
NL == "\n"

Digits == {"0", "1", "2", "3", "4", "5", "6", "7", "8", "9"}

IsDigit(c) == c \in Digits

\* str.isspace of one character, as \s and str.strip see it
IsSpace(c) == c \in {" ", NL, "\t"}

DigitVal(c) ==
  CASE c = "0" -> 0 [] c = "1" -> 1 [] c = "2" -> 2 [] c = "3" -> 3
    [] c = "4" -> 4 [] c = "5" -> 5 [] c = "6" -> 6 [] c = "7" -> 7
    [] c = "8" -> 8 [] c = "9" -> 9

DigitChar(n) ==
  CASE n = 0 -> "0" [] n = 1 -> "1" [] n = 2 -> "2" [] n = 3 -> "3"
    [] n = 4 -> "4" [] n = 5 -> "5" [] n = 6 -> "6" [] n = 7 -> "7"
    [] n = 8 -> "8" [] n = 9 -> "9"

\* int(s) of a non-empty digit string
RECURSIVE IntOf(_)
IntOf(s) ==
  IF Len(s) = 0 THEN 0
  ELSE 10 * IntOf(SubSeq(s, 1, Len(s) - 1)) + DigitVal(s[Len(s)])

\* str.lower of one character
LowerChar(c) ==
  CASE c = "R" -> "r" [] c = "T" -> "t" [] c = "C" -> "c" [] c = "H" -> "h"
    [] c = "A~" -> "a~"
    [] OTHER -> c

\* str.lower
Lower(s) == [i \in 1..Len(s) |-> LowerChar(s[i])]

\* w in s
Contains(s, w) ==
  \E i \in 1..(Len(s) - Len(w) + 1) : SubSeq(s, i, i + Len(w) - 1) = w

\* s.startswith(w)
StartsWith(s, w) == Len(s) >= Len(w) /\ SubSeq(s, 1, Len(w)) = w

\* s[a-1:b] of Python: the slice clamped to the string
Slice(s, a, b) == SubSeq(s, a, IF b > Len(s) THEN Len(s) ELSE b)

\* str.strip
Strip(s) ==
  IF \A i \in 1..Len(s) : IsSpace(s[i]) THEN <<>>
  ELSE SubSeq(s,
              CHOOSE i \in 1..Len(s) :
                ~IsSpace(s[i]) /\ \A j \in 1..(i - 1) : IsSpace(s[j]),
              CHOOSE i \in 1..Len(s) :
                ~IsSpace(s[i]) /\ \A j \in (i + 1)..Len(s) : IsSpace(s[j]))

\* the least element of a non-empty set of numbers
Least(S) == CHOOSE i \in S : \A j \in S : i <= j

\* number of digits, at most k, that s holds from position p on
DigitRun(s, p, k) ==
  Least({n \in 0..k : n = k \/ p + n > Len(s) \/ ~IsDigit(s[p + n])})

\* all the digits s holds from position p on
DigitRunAll(s, p) == DigitRun(s, p, Len(s))

\* the groups of (\d{1,2})[h:]?(\d{0,2}) when the hour is s[i .. p-1] and the
\* minute starts at q
HoraGroups(s, i, p, q) ==
  [found |-> TRUE, hour |-> SubSeq(s, i, p - 1),
   minute |-> SubSeq(s, q, q + DigitRun(s, q, 2) - 1)]

\* the optional [h:] of the pattern, after the hour s[i .. p-1]
HoraSep(s, i, p) ==
  HoraGroups(s, i, p, IF p <= Len(s) /\ s[p] \in {"h", ":"} THEN p + 1 ELSE p)

\* the match of the pattern that starts at the digit at i: one or two digits
HoraAt(s, i) == HoraSep(s, i, i + DigitRun(s, i, 2))

\* re.search(r'(\d{1,2})[h:]?(\d{0,2})', s): the leftmost match and its groups
HoraSearch(s) ==
  IF \A i \in 1..Len(s) : ~IsDigit(s[i])
  THEN [found |-> FALSE, hour |-> <<>>, minute |-> <<>>]
  ELSE HoraAt(s, Least({i \in 1..Len(s) : IsDigit(s[i])}))

Hora == <<"h", "o", "r", "a">>

\* first position from e on that holds no white space
SkipSpaces(s, e) ==
  e + Least({n \in 0..Len(s) : e + n > Len(s) \/ ~IsSpace(s[e + n])})

\* hora at position p
HoraWordAt(s, p) == Slice(s, p, p + 3) = Hora

\* \d+\s*hora matches when the match starts at the digit at i
DuracaoAt(s, i) == HoraWordAt(s, SkipSpaces(s, i + DigitRunAll(s, i)))

\* the digits of the match that starts at i
DuracaoGroup(s, i) ==
  [found |-> TRUE, digits |-> SubSeq(s, i, i + DigitRunAll(s, i) - 1)]

\* re.search(r'(\d+)\s*hora', s): the leftmost match and its group
DuracaoSearch(s) ==
  IF \A i \in 1..Len(s) : ~(IsDigit(s[i]) /\ DuracaoAt(s, i))
  THEN [found |-> FALSE, digits |-> <<>>]
  ELSE DuracaoGroup(s, Least({i \in 1..Len(s) :
                                IsDigit(s[i]) /\ DuracaoAt(s, i)}))

Tema == <<"t", "e", "m", "a">>

\* where group 1 of tema[: ]?(.+) starts when the match starts at i, or 0
TemaGroupAt(s, i) ==
  IF Lower(Slice(s, i, i + 3)) # Tema THEN 0
  ELSE IF i + 5 <= Len(s) /\ s[i + 4] \in {":", " "} /\ s[i + 5] # NL
  THEN i + 5
  ELSE IF i + 4 <= Len(s) /\ s[i + 4] # NL THEN i + 4
  ELSE 0

\* group 1 from g on: up to the end of the line
TemaGroup(s, g) ==
  [found |-> TRUE,
   group |-> SubSeq(s, g, g - 1
               + Least({k \in 0..Len(s) : g + k > Len(s) \/ s[g + k] = NL}))]

\* re.search(r'tema[: ]?(.+)', s, re.IGNORECASE): the leftmost match, group 1
TemaSearch(s) ==
  IF \A i \in 1..Len(s) : TemaGroupAt(s, i) = 0
  THEN [found |-> FALSE, group |-> <<>>]
  ELSE TemaGroup(s, TemaGroupAt(s, Least({i \in 1..Len(s) :
                                           TemaGroupAt(s, i) # 0})))

(***************************************************************************)
(* Date-times: day counts days from the day of the clock reading.          *)
(***************************************************************************)
DateTime(d, h, m, s) == [day |-> d, hour |-> h, minute |-> m, second |-> s]

\* dt + timedelta(hours = n)
AddHours(dt, n) ==
  [dt EXCEPT !.day = dt.day + ((dt.hour + n) \div 24),
             !.hour = (dt.hour + n) % 24]

\* dt + timedelta(days = 1)
AddDay(dt) == [dt EXCEPT !.day = dt.day + 1]

\* seconds since the start of day 0, the order of date-times
Seconds(dt) == ((dt.day * 24 + dt.hour) * 60 + dt.minute) * 60 + dt.second

Amanha == <<"a", "m", "a", "n", "h", "a~">>

\* the result of a call: a value, or an exception with its message
Return(v) == [raised |-> FALSE, val |-> v, msg |-> ""]
Raise(m) == [raised |-> TRUE, val |-> <<>>, msg |-> m]

\* datetime.replace(hour=, minute=, second=0): ValueError out of range
Replace(date, h, m) ==
  IF h > 23 THEN Raise("hour must be in 0..23")
  ELSE IF m > 59 THEN Raise("minute must be in 0..59")
  ELSE Return([date EXCEPT !.hour = h, !.minute = m, !.second = 0])

\* the date the time of day is put on: tomorrow when the text says so
BaseDate(s, clock) == IF Contains(s, Amanha) THEN AddDay(clock) ELSE clock

\* the hour and minute of the match put on the date, when there is a match
ApplyMatch(date, match) ==
  IF match.found
  THEN Replace(date, IntOf(match.hour),
               IF match.minute # <<>> THEN IntOf(match.minute) ELSE 0)
  ELSE Return(date)

\* _parse_time on the lower-cased text
ParseLowered(s, clock) == ApplyMatch(BaseDate(s, clock), HoraSearch(s))

\* GoogleCalendarTool._parse_time, with datetime.now() = clock; the except
\* clause logs and raises again
ParseTime(time_str, clock) == ParseLowered(Lower(time_str), clock)

(***************************************************************************)
(* The calendar tool's handlers.  A handler's result is its reply (a       *)
(* text) together with the calls it made to the calendar collaborator, in  *)
(* order; each call records its arguments and whether it succeeded.        *)
(***************************************************************************)
FailMark == "[cross mark]"
OkMark == "[check mark]"
WarnMark == "[warning sign]"
TrashMark == "[wastebasket]"
CalMark == "[calendar]"

DefaultTema == <<"R", "e", "u", "n", "i", "a~", "o">>
NoLink == "link na~o disponivel"
EventLink == "https://calendar/event"

\* what events().insert(...).execute() may do
CreateOutcomes == {"ok_link", "ok_nolink", "fail"}

\* what events().list(...).execute() may give back: an error, a value that
\* is no dict, a dict without items, a dict with the events it found
ListOutcomes ==
  {[kind |-> "fail", items |-> <<>>], [kind |-> "nondict", items |-> <<>>],
   [kind |-> "noitems", items |-> <<>>]}
  \cup {[kind |-> "dict", items |-> it] :
          it \in UNION {{f \in [1..n -> 1..MaxItems] :
                           \A i, j \in 1..n : i # j => f[i] # f[j]} :
                        n \in 0..MaxItems}}

\* what events().delete(...).execute() may do
DeleteOutcomes == {"ok", "fail"}

Call(svc, op, arg, ok) == [svc |-> svc, op |-> op, arg |-> arg, ok |-> ok]

\* a handler's outcome: the reply it returns or the exception it lets out
Handled(reply, cs) == [raised |-> FALSE, reply |-> reply, msg |-> "", calls |-> cs]
Thrown(m, cs) == [raised |-> TRUE, reply |-> <<>>, msg |-> m, calls |-> cs]

\* two decimal digits
TwoDigits(n) == <<DigitChar(n \div 10), DigitChar(n % 10)>>

\* strftime('%d/%m a^s %H:%M'): the date is written as its day count
FmtData(dt) ==
  <<"day", DigitChar(dt.day), " ", "a^", "s", " ">>
  \o TwoDigits(dt.hour) \o <<":">> \o TwoDigits(dt.minute)

\* the topic of a match of the tema pattern: group 1 stripped, or the default
TemaOf(t) == IF t.found THEN Strip(t.group) ELSE DefaultTema

\* the topic of the message
ExtractTema(mensagem) == TemaOf(TemaSearch(mensagem))

\* the hours of a match of the hora pattern: int(group 1), or 1
DuracaoOf(d) == IF d.found THEN IntOf(d.digits) ELSE 1

\* the duration of the message in hours
ExtractDuracao(mensagem) == DuracaoOf(DuracaoSearch(mensagem))

\* events().insert(calendarId, body = evento).execute()
InsertCall(tema, inicio, fim, create) ==
  Call("calendar", "insert",
       [summary |-> <<CalMark, " ">> \o tema, start |-> inicio, end |-> fim,
        timeZone |-> "America/Sao_Paulo"],
       create # "fail")

\* htmlLink of the created event, or the text that stands for a missing one
HtmlLink(create) == IF create = "ok_link" THEN EventLink ELSE NoLink

\* the reply of _agendar_evento after the insert call c
AgendarReply(tema, inicio, c, create) ==
  IF create = "fail" THEN Thrown("insert failed", <<c>>)
  ELSE Handled(<<OkMark, " Reunia~o agendada!", NL, "Assunto: ">>
               \o tema \o <<NL, "Data: ">> \o FmtData(inicio)
               \o <<NL, "Link: ", HtmlLink(create)>>, <<c>>)

\* _agendar_evento from the parsed start p on: fim = inicio + duracao hours
AgendarInsert(tema, p, duracao, create) ==
  IF p.raised THEN Thrown(p.msg, <<>>)
  ELSE AgendarReply(tema, p.val,
                    InsertCall(tema, p.val, AddHours(p.val, duracao), create),
                    create)

\* the try block of _agendar_evento
AgendarTry(mensagem, clock, create) ==
  AgendarInsert(ExtractTema(mensagem), ParseTime(mensagem, clock),
                ExtractDuracao(mensagem), create)

\* a faulty except clause: the exception is let out
AgendarExceptReraise(r) == r

\* the except clause of _agendar_evento
AgendarExcept(r) ==
  IF r.raised THEN Handled(<<FailMark, " Erro ao agendar: ", r.msg>>, r.calls)
  ELSE r

\* GoogleCalendarTool._agendar_evento
Agendar(mensagem, clock, create) ==
  AgendarExcept(AgendarTry(mensagem, clock, create))

\* events().list(calendarId, timeMin, timeMax, singleEvents).execute()
ListCall(inicio, fim, list) ==
  Call("calendar", "list",
       [timeMin |-> inicio, timeMax |-> fim, found |-> list.items],
       list.kind # "fail")

\* eventos.get('items') of the listing, once a value that is no dict is {}
Items(list) == IF list.kind = "dict" THEN list.items ELSE <<>>

\* a faulty choice of the event: the last of the listing
EventoIdLast(items) == items[Len(items)]

\* the event that is deleted: eventos['items'][0]['id']
EventoId(items) == items[1]

\* the delete calls of _cancelar_evento for the events found
DeleteCalls(items, del) ==
  <<Call("calendar", "delete", [eventId |-> EventoId(items)], del = "ok")>>

\* _cancelar_evento after the list call l
CancelarDelete(l, list, del) ==
  IF list.kind = "fail" THEN Thrown("list failed", <<l>>)
  ELSE IF Items(list) = <<>>
  THEN Handled(<<WarnMark, " Nenhum evento encontrado para cancelar">>, <<l>>)
  ELSE IF del = "fail"
  THEN Thrown("delete failed", <<l>> \o DeleteCalls(Items(list), del))
  ELSE Handled(<<TrashMark, " Evento cancelado com sucesso!">>,
               <<l>> \o DeleteCalls(Items(list), del))

\* _cancelar_evento from the parsed start p on: fim = inicio + 1 hour
CancelarList(p, list, del) ==
  IF p.raised THEN Thrown(p.msg, <<>>)
  ELSE CancelarDelete(ListCall(p.val, AddHours(p.val, 1), list), list, del)

\* the try block of _cancelar_evento
CancelarTry(mensagem, clock, list, del) ==
  CancelarList(ParseTime(mensagem, clock), list, del)

\* the except clause of _cancelar_evento
CancelarExcept(r) ==
  IF r.raised THEN Handled(<<FailMark, " Erro ao cancelar: ", r.msg>>, r.calls)
  ELSE r

\* GoogleCalendarTool._cancelar_evento
Cancelar(mensagem, clock, list, del) ==
  CancelarExcept(CancelarTry(mensagem, clock, list, del))

CancelWords ==
  {<<"c", "a", "n", "c", "e", "l", "a", "r">>,
   <<"r", "e", "m", "o", "v", "e", "r">>}

\* the intent gate of _run: any cancel word in the message
IsCancel(mensagem) == \E w \in CancelWords : Contains(mensagem, w)

\* the dispatch of _run on the lower-cased message
RunLowered(mensagem, clock, env) ==
  IF IsCancel(mensagem) THEN Cancelar(mensagem, clock, env.list, env.del)
  ELSE Agendar(mensagem, clock, env.create)

\* GoogleCalendarTool._run; context is a list of texts
Run(context, clock, env) ==
  IF context = <<>>
  THEN Handled(<<FailMark, " Mensagem invalida recebida">>, <<>>)
  ELSE RunLowered(Lower(context[1]), clock, env)

(***************************************************************************)
(* Values of the request fields: a string, JSON null, a JSON number, or    *)
(* the field is absent.                                                    *)
(***************************************************************************)
Str(s) == [t |-> "str", v |-> s]
IntV(digits) == [t |-> "int", v |-> digits]
NoneV == [t |-> "none", v |-> <<>>]
Absent == [t |-> "absent", v |-> <<>>]

\* dict.get(key, ''): the field, or '' when it is absent
Get(field) == IF field.t = "absent" THEN Str(<<>>) ELSE field

\* bool(x)
Truthy(x) ==
  CASE x.t = "str" -> x.v # <<>>
    [] x.t = "int" -> IntOf(x.v) # 0
    [] OTHER -> FALSE

\* 'whatsapp:+'
Prefix ==
  <<"w", "h", "a", "t", "s", "a", "p", "p", ":", "+">>

\* 'whatsapp:'
Scheme ==
  <<"w", "h", "a", "t", "s", "a", "p", "p", ":">>

\* s.lstrip('+')
LStripPlus(s) ==
  SubSeq(s, 1 + Least({k \in 0..Len(s) : k = Len(s) \/ s[k + 1] # "+"}), Len(s))

\* a faulty normalisation: the prefix is prepended without the startswith test
FormatAlwaysPrepend(number) ==
  IF ~Truthy(number) THEN <<>>
  ELSE IF number.t # "str" THEN <<>>
  ELSE Prefix \o LStripPlus(number.v)

\* format_whatsapp_number: '' for a falsy number and for one that is no
\* string (the AttributeError is caught)
FormatWhatsappNumber(number) ==
  IF ~Truthy(number) THEN <<>>
  ELSE IF number.t # "str" THEN <<>>
  ELSE IF StartsWith(number.v, Prefix) THEN number.v
  ELSE Prefix \o LStripPlus(number.v)

(***************************************************************************)
(* The webhook.                                                            *)
(***************************************************************************)
Apology == <<"Desculpe, ocorreu um erro. Por favor, tente novamente mais tarde.">>
Concluida == <<"Operacao concluida">>

\* what crew.kickoff() may do: run the tool on the message and return its
\* output, fail before or after the tool ran, or return a blank text
Kicks == {"ok", "raise_before", "raise_after", "blank"}

\* what twilio_client.messages.create may do
SendOutcomes == {"ok", "fail"}

\* the response of the endpoint, with the collaborator calls of the request
\* in order and whether the tool ran
Resp(status, error, cs, ran) ==
  [raised |-> FALSE, status |-> status, error |-> error, calls |-> cs,
   handler |-> ran]

\* a faulty incoming_msg: the Body as it came
IncomingMsgNoStrip(b) == b.v

\* incoming_msg: the Body, stripped
IncomingMsg(b) == Strip(b.v)

\* a faulty reply send: a failed send is tried once more
ReplyCallsRetry(sender, body, send) ==
  IF send = "ok"
  THEN <<Call("twilio", "send", [to |-> sender, body |-> body], TRUE)>>
  ELSE <<Call("twilio", "send", [to |-> sender, body |-> body], FALSE),
         Call("twilio", "send", [to |-> sender, body |-> body], FALSE)>>

\* the reply send
ReplyCalls(sender, body, send) ==
  <<Call("twilio", "send", [to |-> sender, body |-> body], send = "ok")>>

\* a faulty except clause: no apology is sent
ApologyCallsNone(sender, apology) == <<>>

\* the apology send of the except clause, when there is a sender
ApologyCalls(sender, apology) ==
  IF sender # <<>>
  THEN <<Call("twilio", "send", [to |-> sender, body |-> Apology],
              apology = "ok")>>
  ELSE <<>>

\* the except clause of whatsapp_webhook
WebhookExcept(sender, cs, ran, msg, apology) ==
  Resp(500, msg, cs \o ApologyCalls(sender, apology), ran)

\* response_text: the result's text stripped, or the fallback text
ResponseText(out) == IF out # <<>> THEN out ELSE Concluida

\* the reply send and what follows it (lines 258 to 265, and the except
\* clause when the send fails)
WebhookSend(sender, cs, sent, send, apology) ==
  IF send = "fail"
  THEN WebhookExcept(sender, cs \o sent, TRUE, "send failed", apology)
  ELSE Resp(200, "", cs \o sent, TRUE)

\* the result of crew.kickoff() turned into the reply, and its send
WebhookReply(sender, r, env) ==
  IF env.kick = "raise_after"
  THEN WebhookExcept(sender, r.calls, TRUE, "kickoff failed", env.apology)
  ELSE WebhookSend(sender, r.calls,
                   ReplyCalls(sender,
                              ResponseText(Strip(IF env.kick = "blank"
                                                 THEN <<" ">> ELSE r.reply)),
                              env.send),
                   env.send, env.apology)

\* whatsapp_webhook from the empty-message check on
WebhookAccept(incoming_msg, sender, clock, env) ==
  IF incoming_msg = <<>> THEN Resp(400, "Mensagem vazia", <<>>, FALSE)
  ELSE IF sender = <<>>
  THEN Resp(400, "Numero do remetente invalido", <<>>, FALSE)
  ELSE IF env.kick = "raise_before"
  THEN WebhookExcept(sender, <<>>, FALSE, "kickoff failed", env.apology)
  ELSE WebhookReply(sender, Run(<<incoming_msg>>, clock, env.cal), env)

\* whatsapp_webhook; a Body that is no string has no strip method, and the
\* AttributeError reaches the except clause while sender is still ''
Webhook(request, clock, env) ==
  IF Get(request.Body).t # "str"
  THEN WebhookExcept(<<>>, <<>>, FALSE, "AttributeError", env.apology)
  ELSE WebhookAccept(IncomingMsg(Get(request.Body)),
                     FormatWhatsappNumber(Get(request.From)), clock, env)

(***************************************************************************)
(* Inputs.                                                                 *)
(***************************************************************************)
\* 'tema: '
FTema ==
  <<"t", "e", "m", "a", ":", " ">>

\* 'Reunia~o '
FReuniao ==
  <<"R", "e", "u", "n", "i", "a~", "o", " ">>

\* '15h '
FHora ==
  <<"1", "5", "h", " ">>

\* '15:30 '
FHoraMin ==
  <<"1", "5", ":", "3", "0", " ">>

\* '2 horas '
FDuas ==
  <<"2", " ", "h", "o", "r", "a", "s", " ">>

\* '0 horas '
FZero ==
  <<"0", " ", "h", "o", "r", "a", "s", " ">>

\* '25h '
FHora25 ==
  <<"2", "5", "h", " ">>

\* '15h99 '
FMin99 ==
  <<"1", "5", "h", "9", "9", " ">>

\* 'amanha~ '
FAmanha ==
  <<"a", "m", "a", "n", "h", "a~", " ">>

\* 'cancelar '
FCancelar ==
  <<"c", "a", "n", "c", "e", "l", "a", "r", " ">>

\* '3'
FTres ==
  <<"3">>

\* '10:75 '
FMin75 ==
  <<"1", "0", ":", "7", "5", " ">>

\* 'a line break'
FLinha ==
  <<NL>>

\* scenario 1 of the specification
Cenario1 ==
  <<"t", "e", "m", "a", ":", " ", "R", "e", "u", "n", "i", "a~", "o", " ",
  "d", "e", " ", "e", "q", "u", "i", "p", "e", ",", " ", "1", "5", "h", ",",
  " ", "2", " ", "h", "o", "r", "a", "s">>

\* scenario 2
Cenario2 ==
  <<"c", "a", "n", "c", "e", "l", "a", "r", " ", "r", "e", "u", "n", "i",
  "a~", "o", " ", "a^", "s", " ", "1", "5", "h">>

\* scenario 3
Cenario3 ==
  <<"c", "a", "n", "c", "e", "l", "a", "r", " ", "a^", "s", " ", "9", "h">>

Fragments ==
  {FTema, FReuniao, FHora, FHoraMin, FDuas, FZero, FHora25, FMin99, FAmanha,
   FCancelar, FTres, FMin75, FLinha}

Cenarios == {Cenario1, Cenario2, Cenario3}

\* the texts made of at most n of the fragments F
RECURSIVE Concats(_, _)
Concats(F, n) ==
  IF n = 0 THEN {<<>>}
  ELSE {t \o f : t \in Concats(F, n - 1), f \in F \cup {<<>>}}

Texts(n) == Concats(Fragments, n) \cup Cenarios

\* readings of the clock
Nows == {DateTime(0, 10, 20, 30), DateTime(0, 23, 5, 0)}

NumFragments == {Prefix, Scheme, <<"+">>, <<"5", "5">>}

\* sender identifiers
Numbers ==
  {Str(s) : s \in Concats(NumFragments, MaxNumFrags)}
  \cup {NoneV, IntV(<<"0">>), IntV(<<"5", "5">>)}

\* the From values of the requests
Senders ==
  {Absent, NoneV, IntV(<<"5", "5">>), Str(<<>>), Str(<<"+", "5", "5">>),
   Str(Prefix \o <<"5", "5">>)}

\* the Body values of the requests
Bodies ==
  {Absent, NoneV, Str(<<" ">>), Str(<<" ", NL>>)}
  \cup {Str(t) : t \in Texts(MaxBodyFrags)}

\* a form request carries strings only
Requests ==
  {r \in [is_json : BOOLEAN, Body : Bodies, From : Senders] :
     r.is_json \/ (r.Body.t \in {"str", "absent"}
                   /\ r.From.t \in {"str", "absent"})}

\* the outcomes of the calendar calls that a run of the tool on msg reads
CalendarEnvsFor(msg) ==
  IF IsCancel(Lower(msg))
  THEN [create : {"ok_link"}, list : ListOutcomes, del : DeleteOutcomes]
  ELSE [create : CreateOutcomes, list : {[kind |-> "noitems", items |-> <<>>]},
        del : {"ok"}]

\* the outcomes of the collaborator calls of one request
WebhookEnvs(request) ==
  [kick : Kicks, cal : CalendarEnvsFor(Get(request.Body).v),
   send : SendOutcomes, apology : SendOutcomes]

NoRet == [raised |-> FALSE]

(***************************************************************************)
(* The state machine: one call of one entry point on drawn inputs.         *)
(***************************************************************************)
Init ==
  /\ pc = "ready"
  /\ ret = NoRet
  /\ calls = <<>>
  /\ now \in Nows
  /\ \/ entry = "parse_time" /\ text \in Texts(MaxFrags) /\ req = <<>>
     \/ entry \in {"agendar", "cancelar"} /\ text \in Texts(MaxMsgFrags)
        /\ req = <<>>
     \/ entry = "run" /\ text = <<>>
        /\ req \in {<<>>} \cup {<<t>> : t \in Texts(MaxMsgFrags)}
     \/ entry = "format" /\ text = <<>> /\ req \in Numbers
     \/ entry = "webhook" /\ text = <<>> /\ req \in Requests

Done(r, cs) ==
  /\ pc' = "done"
  /\ ret' = r
  /\ calls' = cs
  /\ UNCHANGED <<entry, text, now, req>>

\* a handler returns r
DoneHandler(r) == Done([raised |-> r.raised, reply |-> r.reply], r.calls)

\* the endpoint responds r
DoneWebhook(r) ==
  Done([raised |-> r.raised, status |-> r.status, error |-> r.error,
        handler |-> r.handler], r.calls)

ParseTimeCall ==
  /\ pc = "ready" /\ entry = "parse_time"
  /\ Done(ParseTime(text, now), <<>>)

AgendarCall ==
  /\ pc = "ready" /\ entry = "agendar"
  /\ \E create \in CreateOutcomes : DoneHandler(Agendar(text, now, create))

CancelarCall ==
  /\ pc = "ready" /\ entry = "cancelar"
  /\ \E list \in ListOutcomes, del \in DeleteOutcomes :
       DoneHandler(Cancelar(text, now, list, del))

RunCall ==
  /\ pc = "ready" /\ entry = "run"
  /\ \E env \in CalendarEnvsFor(IF req = <<>> THEN <<>> ELSE req[1]) :
       DoneHandler(Run(req, now, env))

FormatCall ==
  /\ pc = "ready" /\ entry = "format"
  /\ Done([raised |-> FALSE, val |-> FormatWhatsappNumber(req)], <<>>)

WebhookCall ==
  /\ pc = "ready" /\ entry = "webhook"
  /\ \E env \in WebhookEnvs(req) : DoneWebhook(Webhook(req, now, env))

Next ==
  \/ ParseTimeCall
  \/ AgendarCall
  \/ CancelarCall
  \/ RunCall
  \/ FormatCall
  \/ WebhookCall

Spec == Init /\ [][Next]_vars

(***************************************************************************)
(* Properties.                                                             *)
(***************************************************************************)
Finished(e) == pc = "done" /\ entry = e

\* the calls of the request made to op
CallsTo(op) == SelectSeq(calls, LAMBDA c : c.op = op)

\* the messaging sends of the request
Sends == CallsTo("send")

\* the calendar calls of the request
CalendarCalls == SelectSeq(calls, LAMBDA c : c.svc = "calendar")

\* C1: _agendar_evento and _cancelar_evento never raise; whenever the time
\* parser or a calendar call (create, list, delete) failed, what they
\* return is a reply that starts with the failure marker.
C1_HandlersNeverRaise ==
  (pc = "done" /\ entry \in {"agendar", "cancelar"}) =>
    /\ ret.raised = FALSE
    /\ Len(ret.reply) > 0
    /\ (ParseTime(text, now).raised \/ \E i \in 1..Len(calls) : ~calls[i].ok)
         => ret.reply[1] = FailMark

\* C1, its case: the create call failed and the booking handler returned a
\* failure-marked reply.
C1_Witness ==
  /\ Finished("agendar")
  /\ Len(calls) = 1 /\ calls[1].op = "insert" /\ ~calls[1].ok
  /\ ~ret.raised /\ ret.reply[1] = FailMark

\* the Body of the request is empty: absent, '' or white space only
BodyIsEmpty(b) ==
  b.t = "absent" \/ (b.t = "str" /\ \A i \in 1..Len(b.v) : IsSpace(b.v[i]))

\* C2: a request whose Body is empty (absent and white space only
\* included) is answered with the empty-message error; no handler runs and
\* no calendar or messaging call is made.
C2_EmptyBodyRejected ==
  (Finished("webhook") /\ BodyIsEmpty(req.Body)) =>
    /\ ret.status = 400 /\ ret.error = "Mensagem vazia"
    /\ ~ret.handler
    /\ calls = <<>>

\* C2, its case: a white-space Body from a well-formed sender is rejected.
C2_Witness ==
  /\ Finished("webhook")
  /\ req.Body = Str(<<" ", NL>>) /\ req.From = Str(Prefix \o <<"5", "5">>)
  /\ ret.status = 400 /\ calls = <<>>

\* the message of the request is accepted: a Body that is not empty
BodyAccepted == req.Body.t = "str" /\ ~BodyIsEmpty(req.Body)

\* the sender of an accepted message cannot be normalised
NormalizationFailed ==
  BodyAccepted /\ FormatWhatsappNumber(Get(req.From)) = <<>>

\* the send of the reply failed
ReplySendFailed ==
  \E i \in 1..Len(calls) :
    calls[i].op = "send" /\ calls[i].arg.body # Apology /\ ~calls[i].ok

\* the sends of the generic apology
ApologySends == SelectSeq(Sends, LAMBDA c : c.arg.body = Apology)

\* C3 as stated: whenever sender normalisation fails or the reply send
\* fails, one generic apology send is attempted and an error status is
\* reported.
C3_Original ==
  (Finished("webhook") /\ (NormalizationFailed \/ ReplySendFailed)) =>
    /\ Len(ApologySends) = 1
    /\ ret.status >= 400

\* C3 amended: when the reply send fails, exactly one apology send to the
\* sender follows, as the last call, and status 500 is reported whether or
\* not the apology send succeeds (nothing is raised, nothing is sent
\* again); when sender normalisation fails, status 400 is reported and no
\* call at all is made.
C3_Amended ==
  Finished("webhook") =>
    /\ ~ret.raised
    /\ ReplySendFailed =>
         /\ ret.status = 500
         /\ Len(ApologySends) = 1 /\ Len(Sends) = 2
         /\ calls[Len(calls)] = ApologySends[1]
         /\ ApologySends[1].arg.to = Sends[1].arg.to
         /\ ApologySends[1].arg.to = FormatWhatsappNumber(Get(req.From))
    /\ NormalizationFailed => (ret.status = 400 /\ calls = <<>>)

\* C3, its case: the reply send failed, the apology send failed too, and
\* status 500 is reported.
C3_Witness ==
  /\ Finished("webhook")
  /\ ReplySendFailed
  /\ Len(ApologySends) = 1 /\ ~ApologySends[1].ok
  /\ ret.status = 500 /\ ~ret.raised

\* the message is accepted and its sender normalises
Accepted == BodyAccepted /\ FormatWhatsappNumber(Get(req.From)) # <<>>

\* every calendar call of the request comes before every messaging send
CalendarBeforeSends ==
  \A i, j \in 1..Len(calls) :
    (calls[i].svc = "twilio" /\ calls[j].svc = "calendar") => j < i

C5_CancelDeletesFirstOnly ==
  Finished("cancelar") =>
    /\ Len(CallsTo("delete")) <= 1
    /\ \A i \in 1..Len(calls) : calls[i].op \in {"list", "delete"}
    /\ Len(CallsTo("list")) <= 1
    /\ \A i \in 1..Len(calls) :
         calls[i].op = "list" =>
           /\ i = 1
           /\ calls[i].arg.timeMin = ParseTime(text, now).val
           /\ calls[i].arg.timeMax = AddHours(calls[i].arg.timeMin, 1)
           /\ (calls[i].ok /\ calls[i].arg.found = <<>>) =>
                /\ Len(calls) = 1
                /\ ret.reply = <<WarnMark, " Nenhum evento encontrado para cancelar">>
           /\ (calls[i].ok /\ calls[i].arg.found # <<>>) =>
                /\ Len(calls) = 2 /\ calls[2].op = "delete"
                /\ calls[2].arg.eventId = calls[i].arg.found[1]
                /\ calls[2].ok =>
                     ret.reply = <<TrashMark, " Evento cancelado com sucesso!">>
    /\ CallsTo("list") = <<>> => calls = <<>>

\* C5, its case: the listing returned two events and the first is deleted.
C5_Witness ==
  /\ Finished("cancelar")
  /\ Len(calls) = 2
  /\ calls[1].arg.found = <<2, 1>>
  /\ calls[2].op = "delete" /\ calls[2].arg.eventId = 2 /\ calls[2].ok
  /\ ret.reply[1] = TrashMark

\* C6: every booking submitted to the calendar ends strictly after it
\* starts.
C6_EndAfterStart ==
  \A i \in 1..Len(calls) :
    calls[i].op = "insert" =>
      Seconds(calls[i].arg.end) > Seconds(calls[i].arg.start)

\* the digit run of s that starts at i is a whole number of one or two digits
HourDigitsAt(s, i) ==
  /\ IsDigit(s[i])
  /\ i = 1 \/ ~IsDigit(s[i - 1])
  /\ DigitRunAll(s, i) \in {1, 2}

\* the hour patterns that start at i: Hh, HhM, HhMM and H:MM, the minute
\* digits not followed by a further digit
HourPatternsAt(s, i) ==
  IF ~HourDigitsAt(s, i) THEN {}
  ELSE LET p == i + DigitRunAll(s, i)
           k == IF p + 1 <= Len(s) THEN DigitRunAll(s, p + 1) ELSE 0
           h == IntOf(SubSeq(s, i, p - 1))
       IN IF p <= Len(s) /\ s[p] = "h" /\ k <= 2
          THEN {[hour |-> h, minute |-> IntOf(SubSeq(s, p + 1, p + k))]}
          ELSE IF p <= Len(s) /\ s[p] = ":" /\ k = 2
          THEN {[hour |-> h, minute |-> IntOf(SubSeq(s, p + 1, p + 2))]}
          ELSE {}

\* the hour patterns of a text, by where they start
HourPatterns(s) ==
  UNION {{<<i, t>> : t \in HourPatternsAt(s, i)} : i \in 1..Len(s)}

InRange(t) == t.hour <= 23 /\ t.minute <= 59

\* C7: a text that holds an hour pattern with H in 0..23 and MM in 0..59
\* is parsed to that hour and minute, seconds zero, on the day of the clock
\* reading (the day after with the tomorrow keyword), whatever else the
\* text holds.  Stated for the texts that hold one hour pattern.
C7_ExactHourMinute ==
  Finished("parse_time") =>
    \A x \in HourPatterns(Lower(text)) :
      (Cardinality(HourPatterns(Lower(text))) = 1 /\ InRange(x[2])) =>
        /\ ~ret.raised
        /\ ret.val.hour = x[2].hour /\ ret.val.minute = x[2].minute
        /\ ret.val.second = 0
        /\ ret.val.day = now.day
                         + (IF Contains(Lower(text), Amanha) THEN 1 ELSE 0)

\* C8: a text that holds an hour pattern with hour >= 24 or minute >= 60
\* makes _parse_time fail.  Stated for the texts that hold one hour pattern.
C8_OutOfRangeFails ==
  Finished("parse_time") =>
    \A x \in HourPatterns(Lower(text)) :
      (Cardinality(HourPatterns(Lower(text))) = 1 /\ ~InRange(x[2])) =>
        ret.raised

\* C9 as stated: normalisation is idempotent, leaves a prefixed input
\* unchanged and prepends the prefix to any other non-empty input.
C9_Original ==
  (Finished("format") /\ req.t = "str") =>
    /\ FormatWhatsappNumber(Str(ret.val)) = ret.val
    /\ StartsWith(req.v, Prefix) => ret.val = req.v
    /\ (req.v # <<>> /\ ~StartsWith(req.v, Prefix)) => ret.val = Prefix \o req.v

\* the text s without the plus signs it starts with
WithoutLeadingPlus(s) ==
  CHOOSE r \in {SubSeq(s, k + 1, Len(s)) : k \in 0..Len(s)} :
    /\ r = <<>> \/ r[1] # "+"
    /\ \A i \in 1..(Len(s) - Len(r)) : s[i] = "+"

\* C9 amended: normalisation is idempotent; a string that carries the
\* prefix is returned unchanged; any other non-empty string loses the plus
\* signs it starts with and gets the prefix prepended; an empty value and a
\* value that is no string give the empty string.
C9_Amended ==
  Finished("format") =>
    /\ FormatWhatsappNumber(Str(ret.val)) = ret.val
    /\ (req.t = "str" /\ StartsWith(req.v, Prefix)) => ret.val = req.v
    /\ (req.t = "str" /\ req.v # <<>> /\ ~StartsWith(req.v, Prefix))
         => ret.val = Prefix \o WithoutLeadingPlus(req.v)
    /\ (req.t # "str" \/ req.v = <<>>) => ret.val = <<>>

\* C9, its case: a number with a leading plus sign is normalised.
C9_Witness ==
  /\ Finished("format")
  /\ req = Str(<<"+", "5", "5">>)
  /\ ret.val = Prefix \o <<"5", "5">>

\* the topic of scenario 1
TopicoCenario1 ==
  <<"R", "e", "u", "n", "i", "a~", "o", " ", "d", "e", " ", "e", "q", "u",
  "i", "p", "e">>

\* C10: the body of scenario 1 books one event with the topic "Reunia~o de
\* equipe" from 15:00 to 17:00 of the day of the clock reading, and the
\* reply holds the topic and the link of the event.
C10_Scenario1 ==
  (Finished("run") /\ req = <<Cenario1>> /\ \A i \in 1..Len(calls) : calls[i].ok) =>
    /\ Len(calls) = 1 /\ calls[1].op = "insert"
    /\ calls[1].arg.summary = <<CalMark, " ">> \o TopicoCenario1
    /\ calls[1].arg.start = DateTime(now.day, 15, 0, 0)
    /\ calls[1].arg.end = DateTime(now.day, 17, 0, 0)
    /\ Contains(ret.reply, TopicoCenario1)
    /\ ret.reply[Len(ret.reply)] \in {EventLink, NoLink}

====
